---- MODULE Spec2Model ----
(***************************************************************************)
(* collector.py: the module-level existence guard, the configuration      *)
(* resolution of main(), the per-term scrape loop and the CSV writer.      *)
(*                                                                         *)
(* Python strings are sequences of one-character strings, so that split,  *)
(* strip, lower, int and os.path.join are computed, not assumed.  An       *)
(* optional value (an absent flag, an unset environment variable, an       *)
(* unbound local) is None == <<>>, a present one is Some(v) == <<v>>.      *)
(* scrape_jobs, os.makedirs and DataFrame.to_csv are external: each is a   *)
(* nondeterministic choice between returning and raising.                  *)
(***************************************************************************)
EXTENDS Integers, Sequences, FiniteSets, TLC

\* ------------------------------------------------------------- bounds
\* Longest --terms / --site string drawn by the splitting inputs.
MaxLen == 4
\* Most rows scrape_jobs returns for one term.
MaxBatch == 2

\* ------------------------------------------------------------ options
None == <<>>
Some(v) == <<v>>

\* ------------------------------------------------------ string helpers
Whitespace == {" ", "\t", "\n"}

RECURSIVE lstrip(_)
lstrip(s) == IF s # <<>> /\ Head(s) \in Whitespace THEN lstrip(Tail(s)) ELSE s

RECURSIVE rstrip(_)
rstrip(s) ==
  IF s # <<>> /\ s[Len(s)] \in Whitespace
  THEN rstrip(SubSeq(s, 1, Len(s) - 1))
  ELSE s

\* str.strip()
strip(s) == rstrip(lstrip(s))

\* str.lower(), on the letters the inputs use
lower_char(c) ==
  CASE c = "T" -> "t" [] c = "R" -> "r" [] c = "U" -> "u" [] c = "E" -> "e"
    [] c = "Y" -> "y" [] c = "S" -> "s" [] c = "F" -> "f" [] c = "A" -> "a"
    [] c = "L" -> "l" [] c = "N" -> "n" [] c = "O" -> "o"
    [] OTHER -> c

lower(s) == [k \in 1..Len(s) |-> lower_char(s[k])]

\* str.split(","): the pieces between commas, empty pieces included
RECURSIVE split(_)
split(s) ==
  IF \A k \in 1..Len(s) : s[k] # ","
  THEN <<s>>
  ELSE LET k == CHOOSE j \in 1..Len(s) :
                  s[j] = "," /\ \A m \in 1..(j - 1) : s[m] # ","
       IN <<SubSeq(s, 1, k - 1)>> \o split(SubSeq(s, k + 1, Len(s)))

\* SplitCsv with a fault: the pieces are kept unstripped.
SplitCsv_NoStrip(csv) == SelectSeq(split(csv), LAMBDA t : strip(t) # <<>>)

\* [s.strip() for s in csv.split(",") if s.strip()]
SplitCsv(csv) ==
  LET parts == split(csv)
      stripped == [k \in 1..Len(parts) |-> strip(parts[k])]
  IN SelectSeq(stripped, LAMBDA t : t # <<>>)

Digit == {"0", "1", "2", "3", "4", "5", "6", "7", "8", "9"}

DigitVal(c) ==
  CASE c = "0" -> 0 [] c = "1" -> 1 [] c = "2" -> 2 [] c = "3" -> 3
    [] c = "4" -> 4 [] c = "5" -> 5 [] c = "6" -> 6 [] c = "7" -> 7
    [] c = "8" -> 8 [] c = "9" -> 9

IntBody(s) ==
  LET t == strip(s)
  IN IF t # <<>> /\ t[1] \in {"+", "-"} THEN Tail(t) ELSE t

\* Whether int(s) returns; otherwise it raises ValueError.
IntParses(s) ==
  /\ IntBody(s) # <<>>
  /\ \A k \in 1..Len(IntBody(s)) : IntBody(s)[k] \in Digit

RECURSIVE DigitsValue(_)
DigitsValue(d) ==
  IF d = <<>> THEN 0
  ELSE 10 * DigitsValue(SubSeq(d, 1, Len(d) - 1)) + DigitVal(d[Len(d)])

\* int(s), for an s that parses
int(s) ==
  LET t == strip(s)
  IN IF t[1] = "-" THEN 0 - DigitsValue(IntBody(s)) ELSE DigitsValue(IntBody(s))

\* os.path.join(a, b) for a relative b
JoinPath(a, b) ==
  IF a = <<>> THEN b
  ELSE IF a[Len(a)] = "/" THEN a \o b
  ELSE a \o <<"/">> \o b

\* ------------------------------------------------------------ literals
OutName ==
  <<"f", "l", "a", "t", "_", "j", "o", "b", "s", "_",
    "l", "i", "s", "t", ".", "c", "s", "v">>
DefaultSites ==
  <<"i", "n", "d", "e", "e", "d", ",", "l", "i", "n", "k", "e", "d", "i", "n",
    ",", "g", "l", "a", "s", "s", "d", "o", "o", "r">>
DefaultTerms == <<"A", "z", "u", "r", "e", ",", "d", "e", "v", "o", "p", "s">>
DefaultLocation == <<"C", "a", "n", "a", "d", "a">>
DefaultCountry == <<"c", "a", "n", "a", "d", "a">>
DefaultResults == <<"2", "0">>
DefaultHours == <<"2", "4">>
DefaultDataDir == <<"/", "D", "A", "T", "A">>
TrueTokens == {<<"1">>, <<"t", "r", "u", "e">>, <<"y", "e", "s">>, <<"y">>}

\* --------------------------------------------------------------- state
VARIABLES
  args,           \* argparse.Namespace: the flags of the invocation
  env,            \* os.environ: the variables the program reads
  files,          \* filesystem: path -> None, or Some(rows) of the file there
  files0,         \* the filesystem when the process started
  dirs,           \* filesystem: the directories that exist
  pc,             \* "import" (module level), "main", "loop", "done"
  site_name,      \* main's local site_name
  search_terms,   \* main's local search_terms
  i,              \* index of the next term of the for loop
  jobcollected,   \* main's local jobcollected: the rows of the DataFrame
  totaljobcount,  \* main's local totaljobcount
  out_csv,        \* main's local out_csv: None while unbound
  events,         \* the external calls made so far, in order
  stderr,         \* what was printed to sys.stderr, in order
  exit_code,      \* None while running, Some(status) once the process ended
  unhandled       \* the exception that ended the process, "" if none

vars ==
  <<args, env, files, files0, dirs, pc, site_name, search_terms, i,
    jobcollected, totaljobcount, out_csv, events, stderr, exit_code, unhandled>>

\* ------------------------------------------------------------- inputs
Chars == {"a", "b", ",", " "}
Strings(n) == UNION {[1..k -> Chars] : k \in 0..n}

D1 == <<"d", "1">>
D2 == <<"d", "2">>
DataDirs == {DefaultDataDir, D1, D2, <<>>}
Paths == {JoinPath(d, OutName) : d \in DataDirs}
OldRows == <<"old">>

\* The spec's own example of term splitting: "Azure, devops ,, "
ExampleCsv ==
  <<"A", "z", "u", "r", "e", ",", " ", "d", "e", "v", "o", "p", "s", " ",
    ",", ",", " ">>
ThreeTerms == <<"a", ",", "b", ",", "a">>

NoArgs ==
  [site |-> None, terms |-> None, google_term |-> None, location |-> None,
   results |-> None, hours_old |-> None, country_indeed |-> None,
   linkedin_fetch_description |-> FALSE,
   no_linkedin_fetch_description |-> FALSE, data_dir |-> None]

BaseEnv ==
  [SITE_NAME |-> None, SEARCH_TERMS |-> None, GOOGLE_SEARCH_TERM |-> None,
   LOCATION |-> None, RESULTS_WANTED |-> None, HOURS_OLD |-> None,
   COUNTRY_INDEED |-> None, LINKEDIN_FETCH_DESCRIPTION |-> None,
   DATA_DIR |-> Some(D1)]

NoFiles == [p \in Paths |-> None]
Input(a, e, f) == [args |-> a, env |-> e, files |-> f]

\* --terms, then --site, over every string up to MaxLen (and two longer ones)
InTerms ==
  {Input([NoArgs EXCEPT !.terms = Some(s)], BaseEnv, NoFiles) :
     s \in Strings(MaxLen) \cup {ExampleCsv, ThreeTerms}}
InSites ==
  {Input([NoArgs EXCEPT !.site = Some(s), !.terms = Some(<<"a">>)],
         BaseEnv, NoFiles) :
     s \in Strings(MaxLen) \cup {ExampleCsv}}

\* flag and variable of the two lists: absent, empty, given
ListFlags == {None, Some(<<>>), Some(<<"b">>)}
ListVars == {None, Some(<<>>), Some(<<"a", ",", "b">>)}
InLists ==
  {Input([NoArgs EXCEPT !.site = sf, !.terms = tf],
         [BaseEnv EXCEPT !.SITE_NAME = se, !.SEARCH_TERMS = te], NoFiles) :
     sf \in ListFlags, se \in ListVars, tf \in ListFlags, te \in ListVars}

\* flag and variable of the scalar strings
StrFlags == {None, Some(<<>>), Some(<<"f">>)}
StrVars == {None, Some(<<>>), Some(<<"e">>)}
InStrings ==
  {Input([NoArgs EXCEPT !.google_term = gf, !.location = lf,
                        !.country_indeed = cf],
         [BaseEnv EXCEPT !.GOOGLE_SEARCH_TERM = ge, !.LOCATION = le,
                         !.COUNTRY_INDEED = ce], NoFiles) :
     gf \in StrFlags, ge \in StrVars, lf \in StrFlags,
     le \in {None, Some(<<"e">>)}, cf \in StrFlags,
     ce \in {None, Some(<<"e">>)}}

\* flag and variable of the two integers
IntFlags == {None, Some(0), Some(5)}
IntVars == {None, Some(<<"7">>), Some(<<" ", "1", "2", " ">>), Some(<<"0">>),
            Some(<<"x">>), Some(<<>>)}
InInts ==
  {Input([NoArgs EXCEPT !.results = rf, !.hours_old = hf],
         [BaseEnv EXCEPT !.RESULTS_WANTED = re, !.HOURS_OLD = he], NoFiles) :
     rf \in IntFlags, re \in IntVars, hf \in IntFlags, he \in IntVars}

\* the two boolean flags and LINKEDIN_FETCH_DESCRIPTION
BoolVars ==
  {None, Some(<<>>), Some(<<"1">>), Some(<<"0">>), Some(<<"y">>),
   Some(<<"n">>), Some(<<"n", "o">>), Some(<<"Y", "E", "S">>),
   Some(<<" ", "T", "r", "u", "e", "\n">>), Some(<<"t", "r", "u", "e">>),
   Some(<<"f", "a", "l", "s", "e">>), Some(<<"F", "a", "l", "s", "e">>),
   Some(<<"y", " ", "e", "s">>), Some(<<"t">>)}
InBools ==
  {Input([NoArgs EXCEPT !.linkedin_fetch_description = on,
                        !.no_linkedin_fetch_description = off],
         [BaseEnv EXCEPT !.LINKEDIN_FETCH_DESCRIPTION = v], NoFiles) :
     on \in BOOLEAN, off \in BOOLEAN, v \in BoolVars}

\* --data-dir, DATA_DIR and the output files that already exist
DirOpts == {None} \cup {Some(d) : d \in DataDirs}
InDirs ==
  {Input([NoArgs EXCEPT !.data_dir = df], [BaseEnv EXCEPT !.DATA_DIR = de],
         [p \in Paths |-> IF p \in old THEN Some(OldRows) ELSE None]) :
     df \in DirOpts, de \in DirOpts, old \in SUBSET Paths}

Inputs == InTerms \cup InSites \cup InLists \cup InStrings \cup InInts
            \cup InBools \cup InDirs

\* A file's directory exists; the working directory (<<>>) always does.
DirsOf(f) == {d \in DataDirs : d # <<>> /\ f[JoinPath(d, OutName)] # None}

Init ==
  \E in \in Inputs :
    /\ args = in.args
    /\ env = in.env
    /\ files = in.files
    /\ files0 = in.files
    /\ dirs = DirsOf(in.files)
    /\ pc = "import"
    /\ site_name = <<>>
    /\ search_terms = <<>>
    /\ i = 1
    /\ jobcollected = <<>>
    /\ totaljobcount = 0
    /\ out_csv = None
    /\ events = <<>>
    /\ stderr = <<>>
    /\ exit_code = None
    /\ unhandled = ""

\* ------------------------------------------------------ configuration
\* os.getenv(key, default)
_env(key, default) == IF env[key] = None THEN default ELSE env[key][1]

\* _env_bool with a fault: a value outside the tokens gives the default.
_env_bool_DefaultOnMiss(key, default) ==
  IF env[key] = None THEN default
  ELSE IF lower(strip(env[key][1])) \in TrueTokens THEN TRUE ELSE default

_env_bool(key, default) ==
  IF env[key] = None THEN default
  ELSE lower(strip(env[key][1])) \in TrueTokens

\* Python truth of an optional string flag: None and "" are falsy.
Truthy(flag) == flag # None /\ flag[1] # <<>>
\* Python truth of an optional integer flag: None and 0 are falsy.
TruthyInt(flag) == flag # None /\ flag[1] # 0

\* flag or alt, on strings
PyOr(flag, alt) == IF Truthy(flag) THEN flag[1] ELSE alt

site_csv == PyOr(args.site, _env("SITE_NAME", DefaultSites))
search_term_csv == PyOr(args.terms, _env("SEARCH_TERMS", DefaultTerms))

\* The locals of one loop iteration, for the term search_term.
google_term(search_term) ==
  PyOr(args.google_term, _env("GOOGLE_SEARCH_TERM", search_term))
location == PyOr(args.location, _env("LOCATION", DefaultLocation))
country_indeed ==
  PyOr(args.country_indeed, _env("COUNTRY_INDEED", DefaultCountry))
data_dir == PyOr(args.data_dir, _env("DATA_DIR", DefaultDataDir))

\* args.results or int(...): int is evaluated only when the flag is falsy.
results_raises ==
  ~TruthyInt(args.results) /\ ~IntParses(_env("RESULTS_WANTED", DefaultResults))
results_wanted ==
  IF TruthyInt(args.results) THEN args.results[1]
  ELSE int(_env("RESULTS_WANTED", DefaultResults))
hours_raises ==
  ~TruthyInt(args.hours_old) /\ ~IntParses(_env("HOURS_OLD", DefaultHours))
hours_old ==
  IF TruthyInt(args.hours_old) THEN args.hours_old[1]
  ELSE int(_env("HOURS_OLD", DefaultHours))

both_flags ==
  args.linkedin_fetch_description /\ args.no_linkedin_fetch_description
linkedin_fetch_description ==
  IF args.no_linkedin_fetch_description THEN FALSE
  ELSE IF args.linkedin_fetch_description THEN TRUE
  ELSE _env_bool("LINKEDIN_FETCH_DESCRIPTION", TRUE)

\* ------------------------------------------------------------ externals
\* What scrape_jobs may return for a term: up to MaxBatch rows, in its order.
Batches(term) == {[k \in 1..n |-> <<term, k>>] : n \in 0..MaxBatch}

ScrapeEvent(search_term, ok, jobs) ==
  [kind |-> "scrape_jobs", site_name |-> site_name,
   search_term |-> search_term,
   google_search_term |-> google_term(search_term), location |-> location,
   results_wanted |-> results_wanted, hours_old |-> hours_old,
   country_indeed |-> country_indeed,
   linkedin_fetch_description |-> linkedin_fetch_description,
   ok |-> ok, jobs |-> jobs]
MakedirsEvent(ok) == [kind |-> "makedirs", path |-> data_dir, ok |-> ok]
WriteEvent(rows, ok) ==
  [kind |-> "to_csv", path |-> out_csv[1], rows |-> rows, ok |-> ok]

calls == SelectSeq(events, LAMBDA e : e.kind = "scrape_jobs")
writes == SelectSeq(events, LAMBDA e : e.kind = "to_csv")

\* An exception nothing catches: the traceback goes to stderr, the status is 1.
Crash(exc, err) ==
  /\ pc' = "done"
  /\ unhandled' = exc
  /\ exit_code' = Some(1)
  /\ stderr' = Append(err, "Traceback")

\* ------------------------------------------------------------- actions
\* The module-level guard: it reads os.environ["DATA_DIR"] alone.
ModuleGuard ==
  /\ pc = "import"
  /\ \/ /\ env.DATA_DIR = None
        /\ Crash("KeyError", stderr)
     \/ /\ env.DATA_DIR # None
        /\ files[JoinPath(env.DATA_DIR[1], OutName)] # None
        /\ pc' = "done"
        /\ exit_code' = Some(0)
        /\ UNCHANGED <<unhandled, stderr>>
     \/ /\ env.DATA_DIR # None
        /\ files[JoinPath(env.DATA_DIR[1], OutName)] = None
        /\ pc' = "main"
        /\ UNCHANGED <<exit_code, unhandled, stderr>>
  /\ UNCHANGED <<args, env, files, files0, dirs, site_name, search_terms, i,
                 jobcollected, totaljobcount, out_csv, events>>

\* main, up to the for loop: the two lists and the empty accumulator.
MainStart ==
  /\ pc = "main"
  /\ site_name' = SplitCsv(site_csv)
  /\ search_terms' = SplitCsv(search_term_csv)
  /\ jobcollected' = <<>>
  /\ totaljobcount' = 0
  /\ i' = 1
  /\ pc' = "loop"
  /\ UNCHANGED <<args, env, files, files0, dirs, out_csv, events, stderr,
                 exit_code, unhandled>>

InLoop == pc = "loop" /\ i <= Len(search_terms)

\* What the iteration has printed to stderr once it reaches os.makedirs.
Warned ==
  IF both_flags THEN Append(stderr, "prefer disable") ELSE stderr

\* An iteration in which int(...) raises ValueError, outside any try.
IterValueError ==
  /\ InLoop
  /\ results_raises \/ hours_raises
  /\ Crash("ValueError", stderr)
  /\ UNCHANGED <<args, env, files, files0, dirs, site_name, search_terms, i,
                 jobcollected, totaljobcount, out_csv, events>>

\* An iteration in which os.makedirs raises OSError, outside any try.
IterMakedirsError ==
  /\ InLoop
  /\ ~results_raises /\ ~hours_raises
  /\ data_dir \notin dirs
  /\ events' = Append(events, MakedirsEvent(FALSE))
  /\ Crash("OSError", Warned)
  /\ UNCHANGED <<args, env, files, files0, dirs, site_name, search_terms, i,
                 jobcollected, totaljobcount, out_csv>>

\* concat with a fault: the new batch is put first.
concat_Reversed(frame, jobs) == jobs \o frame

\* pd.concat([frame, jobs], ignore_index=True)
concat(frame, jobs) == frame \o jobs

\* ExceptScrape with a fault: the failure is logged and the loop goes on.
ExceptScrape_Continue(evs) ==
  /\ events' = evs
  /\ stderr' = Append(Warned, "scrape failed")
  /\ i' = i + 1
  /\ UNCHANGED <<pc, exit_code, unhandled, jobcollected, totaljobcount, files>>

\* scrape_jobs raised: the except branch returns 2.
ExceptScrape(evs) ==
  /\ events' = evs
  /\ stderr' = Append(Warned, "scrape failed")
  /\ pc' = "done"
  /\ exit_code' = Some(2)
  /\ UNCHANGED <<i, unhandled, jobcollected, totaljobcount, files>>

\* Accumulate with a fault: the frame is written to out_csv after every term.
Accumulate_Streaming(evs, jobs) ==
  /\ totaljobcount' = totaljobcount + Len(jobs)
  /\ jobcollected' = concat(jobcollected, jobs)
  /\ events' = Append(evs, [kind |-> "to_csv", path |-> out_csv'[1],
                            rows |-> jobcollected', ok |-> TRUE])
  /\ files' = [files EXCEPT ![out_csv'[1]] = Some(jobcollected')]
  /\ stderr' = Warned
  /\ i' = i + 1
  /\ UNCHANGED <<pc, exit_code, unhandled>>

\* scrape_jobs returned jobs: count them and append them to the frame.
Accumulate(evs, jobs) ==
  /\ totaljobcount' = totaljobcount + Len(jobs)
  /\ jobcollected' = concat(jobcollected, jobs)
  /\ events' = evs
  /\ stderr' = Warned
  /\ i' = i + 1
  /\ UNCHANGED <<pc, exit_code, unhandled, files>>

\* An iteration that reaches scrape_jobs: the directory exists or is made,
\* out_csv is bound, and scrape_jobs raises or returns a batch.
IterScrape ==
  /\ InLoop
  /\ ~results_raises /\ ~hours_raises
  /\ data_dir # <<>>
  /\ dirs' = dirs \cup {data_dir}
  /\ out_csv' = Some(JoinPath(data_dir, OutName))
  /\ LET term == search_terms[i]
         made == Append(events, MakedirsEvent(TRUE))
     IN \/ ExceptScrape(Append(made, ScrapeEvent(term, FALSE, <<>>)))
        \/ \E jobs \in Batches(term) :
             Accumulate(Append(made, ScrapeEvent(term, TRUE, jobs)), jobs)
  /\ UNCHANGED <<args, env, files0, site_name, search_terms>>

AfterLoop == pc = "loop" /\ i > Len(search_terms)

\* After the loop with out_csv never bound: evaluating to_csv's argument
\* raises UnboundLocalError inside the try, and main returns 3.
WriteUnbound ==
  /\ AfterLoop
  /\ out_csv = None
  /\ stderr' = Append(stderr, "write failed")
  /\ pc' = "done"
  /\ exit_code' = Some(3)
  /\ UNCHANGED <<args, env, files, files0, dirs, site_name, search_terms, i,
                 jobcollected, totaljobcount, out_csv, events, unhandled>>

\* jobcollected.to_csv(out_csv, ...) returns: main returns 0.
WriteCsv ==
  /\ AfterLoop
  /\ out_csv # None
  /\ events' = Append(events, WriteEvent(jobcollected, TRUE))
  /\ files' = [files EXCEPT ![out_csv[1]] = Some(jobcollected)]
  /\ pc' = "done"
  /\ exit_code' = Some(0)
  /\ UNCHANGED <<args, env, files0, dirs, site_name, search_terms, i,
                 jobcollected, totaljobcount, out_csv, stderr, unhandled>>

\* to_csv raises: the file is untouched, or holds the rows written so far.
WriteFailed ==
  /\ AfterLoop
  /\ out_csv # None
  /\ events' = Append(events, WriteEvent(jobcollected, FALSE))
  /\ \/ files' = files
     \/ \E n \in 0..(Len(jobcollected) - 1) :
          files' = [files EXCEPT ![out_csv[1]] = Some(SubSeq(jobcollected, 1, n))]
  /\ stderr' = Append(stderr, "write failed")
  /\ pc' = "done"
  /\ exit_code' = Some(3)
  /\ UNCHANGED <<args, env, files0, dirs, site_name, search_terms, i,
                 jobcollected, totaljobcount, out_csv, unhandled>>

Next ==
  \/ ModuleGuard
  \/ MainStart
  \/ IterValueError
  \/ IterMakedirsError
  \/ IterScrape
  \/ WriteUnbound
  \/ WriteCsv
  \/ WriteFailed

Spec == Init /\ [][Next]_vars

TypeOK ==
  /\ pc \in {"import", "main", "loop", "done"}
  /\ (pc = "done") = (exit_code # None)
  /\ totaljobcount \in Nat

\* ------------------------------------------------- what the claims use
Done == pc = "done"
\* The run went past the module-level guard into main.
PassedGuard ==
  /\ env.DATA_DIR # None
  /\ files0[JoinPath(env.DATA_DIR[1], OutName)] = None
\* main has resolved its two lists.
Resolved == pc = "loop" \/ (Done /\ PassedGuard)

\* Three-tier precedence as the specification states it: a flag that is
\* given wins, else a variable that is set, else the default.
Precedence(flag, var, default) ==
  IF flag # None THEN flag[1] ELSE IF var # None THEN var[1] ELSE default

\* The configured output directory, flag over environment, else /DATA.
ClaimedOutPath ==
  JoinPath(Precedence(args.data_dir, env.DATA_DIR, DefaultDataDir), OutName)

\* The tokens of a comma-separated string, by one left-to-right scan: cur is
\* the token read so far, pend the blanks that follow it and are kept only
\* if the token goes on.
RECURSIVE Scan(_, _, _, _, _)
Scan(s, k, cur, pend, out) ==
  LET flushed == IF cur # <<>> THEN Append(out, cur) ELSE out
  IN IF k > Len(s) THEN flushed
     ELSE IF s[k] = "," THEN Scan(s, k + 1, <<>>, <<>>, flushed)
     ELSE IF s[k] \in Whitespace
       THEN Scan(s, k + 1, cur, IF cur # <<>> THEN Append(pend, s[k]) ELSE <<>>, out)
     ELSE Scan(s, k + 1, cur \o pend \o <<s[k]>>, <<>>, out)
Tokens(s) == Scan(s, 1, <<>>, <<>>, <<>>)

\* The batches of a sequence of calls, one after the other, and their sizes.
RECURSIVE Flatten(_)
Flatten(cs) == IF cs = <<>> THEN <<>> ELSE Head(cs).jobs \o Flatten(Tail(cs))
RECURSIVE SumLen(_)
SumLen(cs) == IF cs = <<>> THEN 0 ELSE Len(Head(cs).jobs) + SumLen(Tail(cs))
Returned == SelectSeq(calls, LAMBDA c : c.ok)

\* raw, without the whitespace around it, is tok up to the case of letters.
Cased ==
  {<<"T", "t">>, <<"R", "r">>, <<"U", "u">>, <<"E", "e">>, <<"Y", "y">>,
   <<"S", "s">>}
IsToken(raw, tok) ==
  \E a \in 1..(Len(raw) + 1) :
    /\ a + Len(tok) - 1 <= Len(raw)
    /\ \A k \in 1..Len(raw) :
         IF k < a \/ k >= a + Len(tok)
         THEN raw[k] \in Whitespace
         ELSE raw[k] = tok[k - a + 1] \/ <<raw[k], tok[k - a + 1]>> \in Cased
Accepted(raw) == \E tok \in TrueTokens : IsToken(raw, tok)

Warnings == SelectSeq(stderr, LAMBDA m : m = "prefer disable")
\* One os.makedirs call per iteration that resolved its configuration.
Resolutions == SelectSeq(events, LAMBDA e : e.kind = "makedirs")

\* -------------------------------------------------------------- claims
\* C1: if <outputDir>/flat_jobs_list.csv exists at start, outputDir being
\* the configured directory (flag over environment) or /DATA, the run makes
\* no provider call, leaves the file unchanged and ends with exit code 0.
ClaimC1_IdempotentSkip ==
  files0[ClaimedOutPath] # None =>
    /\ calls = <<>>
    /\ files[ClaimedOutPath] = files0[ClaimedOutPath]
    /\ Done => exit_code = Some(0)

\* C2: if the provider call for the k-th term fails, no call is made for
\* the terms after it, the output file is never written and main returns 2.
FailFast ==
  \A k \in 1..Len(calls) :
    ~calls[k].ok =>
      /\ k = Len(calls)
      /\ calls[k].search_term = search_terms[k]
      /\ writes = <<>>
      /\ files = files0
      /\ Done /\ exit_code = Some(2) /\ unhandled = ""
FailFast_Witness ==
  /\ Len(search_terms) = 3
  /\ Len(calls) = 2
  /\ ~calls[2].ok
  /\ jobcollected # <<>>
  /\ exit_code = Some(2)

\* C3: with no resolved search term and no output file yet, the loop makes
\* no provider call, the writer is invoked on the empty dataset at
\* <outputDir>/flat_jobs_list.csv and the run ends with exit code 0.
ClaimC3_EmptyInput ==
  (/\ Done
   /\ SplitCsv(search_term_csv) = <<>>
   /\ files0[ClaimedOutPath] = None) =>
    /\ calls = <<>>
    /\ Len(writes) = 1
    /\ writes[1].path = ClaimedOutPath
    /\ writes[1].rows = <<>>
    /\ exit_code = Some(0)

\* C4: after every iteration, and when the writer is invoked, the dataset
\* is the concatenation of the batches returned so far, in term order and
\* with each batch's row order, and the running total is its row count,
\* the sum of the batches' row counts.
AggregationOrderAndCount ==
  /\ jobcollected = Flatten(Returned)
  /\ totaljobcount = Len(jobcollected)
  /\ totaljobcount = SumLen(Returned)
  /\ \A k \in 1..Len(Returned) : Returned[k].search_term = search_terms[k]
  /\ \A w \in 1..Len(writes) : writes[w].rows = Flatten(Returned)
AggregationOrderAndCount_Witness ==
  /\ Len(writes) = 1
  /\ Len(calls) = 2
  /\ calls[1].search_term # calls[2].search_term
  /\ Len(calls[1].jobs) = 1
  /\ Len(calls[2].jobs) = 2
  /\ totaljobcount = 3

\* C5: for every field, and every value a flag can carry (0 and the empty
\* string included), the value passed to the provider or used for the
\* output path is the flag's whenever the flag is given, else the
\* variable's whenever it is set, else the default.
ClaimC5_Precedence ==
  /\ Resolved =>
       /\ site_name = SplitCsv(Precedence(args.site, env.SITE_NAME, DefaultSites))
       /\ search_terms =
            SplitCsv(Precedence(args.terms, env.SEARCH_TERMS, DefaultTerms))
  /\ out_csv # None => out_csv[1] = ClaimedOutPath
  /\ \A k \in 1..Len(calls) :
       LET c == calls[k]
       IN /\ c.google_search_term =
               Precedence(args.google_term, env.GOOGLE_SEARCH_TERM, c.search_term)
          /\ c.location = Precedence(args.location, env.LOCATION, DefaultLocation)
          /\ c.country_indeed =
               Precedence(args.country_indeed, env.COUNTRY_INDEED, DefaultCountry)
          /\ c.results_wanted =
               IF args.results # None THEN args.results[1]
               ELSE int(Precedence(None, env.RESULTS_WANTED, DefaultResults))
          /\ c.hours_old =
               IF args.hours_old # None THEN args.hours_old[1]
               ELSE int(Precedence(None, env.HOURS_OLD, DefaultHours))

\* C6, as claimed: the value is false if the disable flag is set (with a
\* warning when the enable flag is set too), else true if the enable flag
\* is set, else true if the variable, trimmed and lower-cased, is one of
\* 1, true, yes, y, and true as well for any other value or an unset
\* variable.
ClaimC6_BoolResolution ==
  \A k \in 1..Len(calls) :
    /\ calls[k].linkedin_fetch_description =
         IF args.no_linkedin_fetch_description THEN FALSE
         ELSE IF args.linkedin_fetch_description THEN TRUE
         ELSE IF env.LINKEDIN_FETCH_DESCRIPTION # None
                 /\ Accepted(env.LINKEDIN_FETCH_DESCRIPTION[1]) THEN TRUE
         ELSE TRUE
    /\ both_flags => Warnings # <<>>

\* C6, amended: as claimed, but a variable that is set to anything other
\* than 1, true, yes, y (trimmed, case ignored) gives false; only an unset
\* variable gives the default true.  The warning is printed once per
\* iteration that resolves its configuration, and only when both flags
\* are set.
BoolResolution ==
  /\ \A k \in 1..Len(calls) :
       calls[k].linkedin_fetch_description =
         IF args.no_linkedin_fetch_description THEN FALSE
         ELSE IF args.linkedin_fetch_description THEN TRUE
         ELSE IF env.LINKEDIN_FETCH_DESCRIPTION = None THEN TRUE
         ELSE Accepted(env.LINKEDIN_FETCH_DESCRIPTION[1])
  /\ Len(Warnings) = IF both_flags THEN Len(Resolutions) ELSE 0
BoolResolution_Witness ==
  /\ Len(calls) = 2
  /\ ~args.no_linkedin_fetch_description
  /\ ~args.linkedin_fetch_description
  /\ env.LINKEDIN_FETCH_DESCRIPTION = Some(<<"F", "a", "l", "s", "e">>)
  /\ ~calls[1].linkedin_fetch_description
  /\ ~calls[2].linkedin_fetch_description

\* C7: every failure inside the loop or the writer ends the run with exit
\* code 2 or 3 and a message on stderr, never as an unhandled exception;
\* the code is 2 exactly when a provider call failed, 3 exactly when
\* writing the dataset failed, and 0 otherwise.
ClaimC7_ExitCodes ==
  (Done /\ PassedGuard) =>
    /\ unhandled = ""
    /\ exit_code \in {Some(0), Some(2), Some(3)}
    /\ exit_code = Some(2) <=> \E k \in 1..Len(calls) : ~calls[k].ok
    /\ exit_code = Some(3) <=> \E w \in 1..Len(writes) : ~writes[w].ok
    /\ exit_code = Some(2) => stderr[Len(stderr)] = "scrape failed"
    /\ exit_code = Some(3) => stderr[Len(stderr)] = "write failed"

\* C8: the provider is invoked at most once per resolved term, in term
\* order and without retries; the output file is written at most once,
\* only after the call for every term has returned, and no write comes
\* before or between provider calls.
Sequencing ==
  /\ Len(calls) <= Len(search_terms)
  /\ \A k \in 1..Len(calls) : calls[k].search_term = search_terms[k]
  /\ Len(writes) <= 1
  /\ writes # <<>> =>
       /\ Len(calls) = Len(search_terms)
       /\ \A k \in 1..Len(calls) : calls[k].ok
  /\ \A a \in 1..Len(events) : \A b \in (a + 1)..Len(events) :
       events[a].kind = "to_csv" => events[b].kind # "scrape_jobs"
Sequencing_Witness ==
  /\ Len(search_terms) = 3
  /\ search_terms[1] = search_terms[3]
  /\ Len(calls) = 3
  /\ Len(writes) = 1
  /\ events[Len(events)].kind = "to_csv"

\* C9: if --google-term or GOOGLE_SEARCH_TERM is present, every provider
\* call receives that value as its Google search term (flag over
\* environment); if neither is, each call receives its own term.
ClaimC9_GoogleTerm ==
  \A k \in 1..Len(calls) :
    calls[k].google_search_term =
      IF args.google_term # None THEN args.google_term[1]
      ELSE IF env.GOOGLE_SEARCH_TERM # None THEN env.GOOGLE_SEARCH_TERM[1]
      ELSE search_terms[k]

====
